---- MODULE Spec2Model ----
(***************************************************************************)
(* The psnotify netlink listener and dispatcher: the read loop             *)
(* (Watcher.readEvents), the watch-table filter (Watcher.isWatching), the  *)
(* per-kind handlers with fork-following (Watcher.handleEvent) and the     *)
(* connector handshake (netlinkListener.bind, send and close), run against *)
(* subscriber threads that call Watch / RemoveWatch / Close concurrently.  *)
(*                                                                         *)
(* A uint32 bit mask (an interest mask, an event kind) is modelled as the   *)
(* set of the positions of its set bits: 0 is {}, (flags & event) == event *)
(* is  event \subseteq flags  and  a |= b  is  a \cup b.                   *)
(***************************************************************************)
EXTENDS Integers, Sequences, FiniteSets, TLC

(* ------------------------------ bounds --------------------------------- *)
\* datagrams the kernel delivers in one run
MaxDatagrams == 2
\* netlink messages in one datagram
MaxMsgs == 2
\* Watch / RemoveWatch calls made by the subscriber thread in one run
MaxOps == 2

(* ----------------------- constants of the source ----------------------- *)
PROC_CN_MCAST_LISTEN == 1
PROC_CN_MCAST_IGNORE == 2
\* the event kinds, each a single bit
PROC_EVENT_FORK == {0}      \* 0x00000001
PROC_EVENT_EXEC == {1}      \* 0x00000002
PROC_EVENT_EXIT == {31}     \* 0x80000000
PROC_EVENT_UID == {2}       \* 0x00000004
PROC_EVENT_GID == {6}       \* 0x00000040
PROC_EVENT_SID == {7}       \* 0x00000080
PROC_EVENT_PTRACE == {8}    \* 0x00000100
\* syscall.NLMSG_HDRLEN and syscall.NLMSG_DONE
NLMSG_HDRLEN == 16
NLMSG_DONE == 3
\* binary.Size of the fixed-layout records
SizeofCnMsg == 20
SizeofProcEventHeader == 16
SizeofForkProcEvent == 16
SizeofExecProcEvent == 8
SizeofExitProcEvent == 16
SizeofIdProcEvent == 16
SizeofSidProcEvent == 8
\* the wildcard key of the watch table
AnyPid == 0 - 1

VARIABLES
  watches,   \* w.watches: pid -> flags (a function on the watched pids)
  mutex,     \* w.watchesMutex: "free", "disp" or "sub"
  sub,       \* the subscriber thread's call in progress
  nops,      \* subscriber calls made so far
  done,      \* the stop signal (w.done)
  sock,      \* listener.sock: "none", "open" or "closed"
  sent,      \* control opcodes sent on the socket, in order
  seq,       \* listener.seq
  calls,     \* the system calls the listener has made, in order
  lerr,      \* what the listener's last bind or close returned ("" is nil)
  pc,        \* the read loop's position
  next,      \* where the read loop continues once it holds the mutex
  nr,        \* readEvents' nr: bytes the last Recvfrom returned
  err,       \* readEvents' err: whether the last Recvfrom failed
  perr,      \* the error of ParseNetlinkMessage, which readEvents discards
  msgs,      \* messages of the current datagram not yet handled
  ppid,      \* handleEvent's ppid
  pid,       \* handleEvent's pid
  flags,     \* watch.flags as read by the fork-follow lookup
  out,       \* the value of the channel send in progress
  chans,     \* what each channel has delivered so far, in order
  ndgrams,   \* datagrams received so far
  dgram,     \* history: every message of the current datagram, as parsed
  matched,   \* history: mask of the entry that matched at line 220
  via,       \* history: key of the entry the isWatching test matched, if any
  exited     \* history: pids removed by Exit handling and not watched since

tableVars == <<watches, mutex>>
subVars == <<sub, nops>>
chanVars == <<done, sock, sent, seq, calls, lerr>>
dispVars == <<pc, next, nr, err, perr, msgs, ppid, pid, flags, out>>
histVars == <<ndgrams, dgram, matched, via, exited>>
vars == <<watches, mutex, sub, nops, done, sock, sent, seq, calls, lerr, pc, next,
          nr, err, perr, msgs, ppid, pid, flags, out, chans, ndgrams, dgram,
          matched, via, exited>>

(* --------------------------- the inputs -------------------------------- *)

\* A netlink message as the kernel lays it out: the nlmsghdr (len, type),
\* then cn_msg, then the proc_event header (what) and the payload words.
\* len counts the bytes really present, so a short len truncates the data.
Frame(len, type, what, payload) ==
  [len |-> len, type |-> type, what |-> what, payload |-> payload]

FullLen(size) == NLMSG_HDRLEN + SizeofCnMsg + SizeofProcEventHeader + size

\* fork of process 1 creating process 2
FrameFork == Frame(FullLen(SizeofForkProcEvent), NLMSG_DONE, PROC_EVENT_FORK, <<1, 1, 2, 2>>)
\* exec in process 2
FrameExec == Frame(FullLen(SizeofExecProcEvent), NLMSG_DONE, PROC_EVENT_EXEC, <<2, 2>>)
\* exit, uid, gid and sid change raised by thread 2 of process 1
FrameExit == Frame(FullLen(SizeofExitProcEvent), NLMSG_DONE, PROC_EVENT_EXIT, <<2, 1, 0, 0>>)
FrameUid == Frame(FullLen(SizeofIdProcEvent), NLMSG_DONE, PROC_EVENT_UID, <<2, 1, 0, 0>>)
FrameGid == Frame(FullLen(SizeofIdProcEvent), NLMSG_DONE, PROC_EVENT_GID, <<2, 1, 0, 0>>)
FrameSid == Frame(FullLen(SizeofSidProcEvent), NLMSG_DONE, PROC_EVENT_SID, <<2, 1>>)
\* an exec message cut off right after the proc_event header
FrameExecTruncated == Frame(FullLen(0), NLMSG_DONE, PROC_EVENT_EXEC, <<>>)
\* an event kind that handleEvent has no case for
FramePtrace == Frame(FullLen(SizeofExecProcEvent), NLMSG_DONE, PROC_EVENT_PTRACE, <<1, 1>>)
\* an exec message in an envelope that is not NLMSG_DONE (NLMSG_NOOP, 1)
FrameNoop == Frame(FullLen(SizeofExecProcEvent), NLMSG_DONE - 2, PROC_EVENT_EXEC, <<1, 1>>)

\* event kind 0 (PROC_EVENT_NONE, the kernel's acknowledgement of LISTEN)
FrameNone == Frame(FullLen(0), NLMSG_DONE, {}, <<>>)

\* the frames that arrive alone in a datagram
Frames == {FrameFork, FrameExec, FrameExit, FrameUid, FrameGid, FrameSid,
           FrameExecTruncated, FramePtrace, FrameNone}
\* the frames that arrive batched in one datagram
BatchFrames == {FrameExec, FrameNoop}

\* NLMSG_ALIGNTO is 4
nlmAlignOf(n) == ((n + 3) \div 4) * 4

RECURSIVE SumLen(_)
SumLen(fs) == IF fs = <<>> THEN 0 ELSE nlmAlignOf(Head(fs).len) + SumLen(Tail(fs))

\* What one Recvfrom returns: an error, or nr bytes holding the frames.
Datagram(e, n, frames) == [err |-> e, nr |-> n, frames |-> frames]

\* a batch is a datagram filled with MaxMsgs messages
Batches == [1..MaxMsgs -> BatchFrames]

Datagrams ==
  {Datagram(FALSE, SumLen(<<f>>), <<f>>) : f \in Frames}
  \cup {Datagram(FALSE, SumLen(fs), fs) : fs \in Batches}
  \cup { Datagram(TRUE, 0 - 1, <<>>),                  \* Recvfrom fails
         Datagram(FALSE, NLMSG_HDRLEN \div 2, <<>>),   \* half a header
         \* a header whose len runs past the end of the datagram
         Datagram(FALSE, FullLen(0), <<FrameExec>>) }

(* --------------------------- pure helpers ------------------------------ *)
\* syscall.ParseNetlinkMessage on the first nr bytes of the buffer: walks
\* the headers while a whole header is left; a header whose len is below
\* the header size or past the end makes the whole call fail, and the
\* caller (msgs, _ := ...) then ranges over no message at all.  Each
\* message's Data is the len - NLMSG_HDRLEN bytes after its header.  id is
\* history: <<number of the datagram, position in it>> of the next message.
RECURSIVE ParseFrom(_, _, _)
ParseFrom(n, frames, id) ==
  IF n < NLMSG_HDRLEN \/ frames = <<>>
  THEN [ok |-> TRUE, msgs |-> <<>>]
  ELSE LET h == Head(frames)
           l == nlmAlignOf(h.len)
       IN IF h.len < NLMSG_HDRLEN \/ l > n
          THEN [ok |-> FALSE, msgs |-> <<>>]
          ELSE LET rest == ParseFrom(n - l, Tail(frames), <<id[1], id[2] + 1>>)
                   m == [type |-> h.type, dlen |-> h.len - NLMSG_HDRLEN,
                         what |-> h.what, payload |-> h.payload, id |-> id]
               IN IF rest.ok THEN [ok |-> TRUE, msgs |-> <<m>> \o rest.msgs]
                             ELSE rest

RECURSIVE Reverse(_)
Reverse(q) == IF q = <<>> THEN <<>> ELSE Append(Reverse(Tail(q)), Head(q))

\* Faulty variant of ParseNetlinkMessage: the messages come out last first.
ParseNetlinkMessageReversed(d, id) ==
  LET r == ParseFrom(d.nr, d.frames, id)
  IN [ok |-> r.ok, msgs |-> Reverse(r.msgs)]

ParseNetlinkMessage(d, id) == ParseFrom(d.nr, d.frames, id)

\* binary.Read of a record of size bytes out of a buffer holding avail
\* bytes: the record is filled only when all its bytes are there, and is
\* left zeroed otherwise; the bytes are consumed either way.
ReadOk(avail, size) == avail >= size
ReadRest(avail, size) == IF avail > size THEN avail - size ELSE 0

\* handleEvent lines 206-211: hdr.What after the two header reads.
DecodeWhat(m) ==
  IF ReadOk(ReadRest(m.dlen, SizeofCnMsg), SizeofProcEventHeader) THEN m.what ELSE {}

PayloadSize(what) ==
  CASE what = PROC_EVENT_FORK -> SizeofForkProcEvent
    [] what = PROC_EVENT_EXEC -> SizeofExecProcEvent
    [] what = PROC_EVENT_EXIT -> SizeofExitProcEvent
    [] what \in {PROC_EVENT_UID, PROC_EVENT_GID} -> SizeofIdProcEvent
    [] what = PROC_EVENT_SID -> SizeofSidProcEvent
    [] OTHER -> 0

\* The event record after binary.Read(buf, byteOrder, event): word i of the
\* payload, or 0 in every field when the payload is not all there.
DecodeField(m, i) ==
  LET avail == ReadRest(ReadRest(m.dlen, SizeofCnMsg), SizeofProcEventHeader)
  IN IF ReadOk(avail, PayloadSize(DecodeWhat(m))) /\ i <= Len(m.payload)
     THEN m.payload[i] ELSE 0

\* TRUE when every read of handleEvent succeeds on m
Decodable(m) ==
  /\ m.dlen >= SizeofCnMsg + SizeofProcEventHeader
  /\ m.dlen >= SizeofCnMsg + SizeofProcEventHeader + PayloadSize(m.what)

\* Faulty variant of isWatching: an explicit entry that lacks the bit falls
\* through to the wildcard entry instead of shadowing it.
isWatchingFallThrough(t, p, event) ==
  \/ p \in DOMAIN t /\ event \subseteq t[p]
  \/ AnyPid \in DOMAIN t /\ event \subseteq t[AnyPid]

\* Watcher.isWatching, on the table t (the caller holds the mutex)
isWatching(t, p, event) ==
  IF p \in DOMAIN t THEN event \subseteq t[p]
  ELSE IF AnyPid \in DOMAIN t THEN event \subseteq t[AnyPid]
  ELSE FALSE

\* Subscribe: merge the mask into pid's entry, or insert a new entry
Watch(t, p, fl) ==
  IF p \in DOMAIN t THEN [t EXCEPT ![p] = t[p] \cup fl]
  ELSE [q \in DOMAIN t \cup {p} |-> IF q = p THEN fl ELSE t[q]]

\* Unsubscribe: remove pid's entry entirely (nothing to do when absent)
RemoveWatch(t, p) == [q \in DOMAIN t \ {p} |-> t[q]]

(* ------------------------------ the state ------------------------------ *)
Chans == {"Fork", "Exec", "Exit", "Uid", "Sid", "Error"}
NoOut == [chan |-> "none"]
Idle == [op |-> "idle"]
EmptyTable == [q \in {} |-> {}]

\* what the subscriber thread asks for
WatchPids == {AnyPid, 1}
WatchMasks == { PROC_EVENT_FORK \cup PROC_EVENT_EXEC,
                PROC_EVENT_EXIT \cup PROC_EVENT_UID \cup PROC_EVENT_SID }
SubOps == {"Watch", "RemoveWatch"}

\* The process is about to call NewWatcher: no listener, an empty table
\* and no read loop yet.
Init ==
  /\ watches = EmptyTable
  /\ mutex = "free"
  /\ sub = Idle
  /\ nops = 0
  /\ done = FALSE
  /\ sock = "none"
  /\ sent = <<>>
  /\ seq = 0
  /\ calls = <<>>
  /\ lerr = ""
  /\ pc = "new"
  /\ next = ""
  /\ nr = 0
  /\ err = FALSE
  /\ perr = FALSE
  /\ msgs = <<>>
  /\ ppid = 0
  /\ pid = 0
  /\ flags = {}
  /\ out = NoOut
  /\ chans = [c \in Chans |-> <<>>]
  /\ ndgrams = 0
  /\ dgram = <<>>
  /\ matched = {}
  /\ via = {}
  /\ exited = {}

(* ------------------------- subscriber threads -------------------------- *)
\* The Watcher exists once NewWatcher has succeeded; a fatal error of the
\* Go runtime ends the process, subscriber threads included.
Alive == pc \notin {"new", "failed", "fatal"}

\* Watch / RemoveWatch entered: the watchesMutex is taken.  The arguments
\* of the call do not depend on the state, so they are drawn where the
\* body uses them.
SubLock(op) ==
  /\ Alive
  /\ sub = Idle
  /\ nops < MaxOps
  /\ mutex = "free"
  /\ mutex' = "sub"
  /\ sub' = [op |-> op]
  /\ nops' = nops + 1
  /\ UNCHANGED <<watches, chanVars, dispVars, chans, histVars>>

\* Watch's body and its unlock
SubWatch ==
  /\ Alive
  /\ sub.op = "Watch"
  /\ \E p \in WatchPids, f \in WatchMasks :
       /\ watches' = Watch(watches, p, f)
       /\ exited' = exited \ {p}
  /\ mutex' = "free"
  /\ sub' = Idle
  /\ UNCHANGED <<nops, chanVars, dispVars, chans, ndgrams, dgram, matched, via>>

\* RemoveWatch's body and its unlock
SubRemoveWatch ==
  /\ Alive
  /\ sub.op = "RemoveWatch"
  /\ \E p \in WatchPids : watches' = RemoveWatch(watches, p)
  /\ mutex' = "free"
  /\ sub' = Idle
  /\ UNCHANGED <<nops, chanVars, dispVars, chans, histVars>>

\* one system call of the listener: its name, the opcode it carries (0 when
\* it carries none) and whether it succeeded
Sys(name, op, ok) == [name |-> name, op |-> op, ok |-> ok]

\* what the outcomes of the system calls of one listener call are drawn from
Failures == {"", "Socket", "Bind", "Sendto"}

\* netlinkListener.send(op), called after the system calls `before` with
\* `after` still to come: seq is incremented, the message is built and
\* handed to Sendto, whose error is returned
ListenerSend(op, ok, before, after) ==
  /\ seq' = seq + 1
  /\ calls' = before \o <<Sys("Sendto", op, ok)>> \o after
  /\ sent' = IF ok THEN Append(sent, op) ELSE sent
  /\ lerr' = IF ok THEN "" ELSE "Sendto"

\* Faulty variant of ListenerBind: the error of Bind is not looked at.
ListenerBindUnchecked(fail) ==
  IF fail = "Socket"
  THEN /\ calls' = calls \o <<Sys("Socket", 0, FALSE)>>
       /\ lerr' = "Socket"
       /\ UNCHANGED <<sock, seq, sent>>
  ELSE /\ sock' = "open"
       /\ ListenerSend(PROC_CN_MCAST_LISTEN, fail # "Sendto",
                       calls \o <<Sys("Socket", 0, TRUE), Sys("Bind", 0, fail # "Bind")>>,
                       <<>>)

\* netlinkListener.bind: Socket, Bind, then send(LISTEN); the first call
\* that fails (fail names it, "" for none) ends bind with its error
ListenerBind(fail) ==
  IF fail = "Socket"
  THEN /\ calls' = calls \o <<Sys("Socket", 0, FALSE)>>
       /\ lerr' = "Socket"
       /\ UNCHANGED <<sock, seq, sent>>
  ELSE /\ sock' = "open"
       /\ IF fail = "Bind"
          THEN /\ calls' = calls \o <<Sys("Socket", 0, TRUE), Sys("Bind", 0, FALSE)>>
               /\ lerr' = "Bind"
               /\ UNCHANGED <<seq, sent>>
          ELSE ListenerSend(PROC_CN_MCAST_LISTEN, fail # "Sendto",
                            calls \o <<Sys("Socket", 0, TRUE), Sys("Bind", 0, TRUE)>>,
                            <<>>)

\* createListener: listener.bind(), whose error is returned as it is
createListener(fail) == ListenerBind(fail)

\* NewWatcher: createListener; on an error no Watcher is made, otherwise
\* the read loop is started
NewWatcher ==
  /\ pc = "new"
  /\ \E fail \in Failures :
       /\ createListener(fail)
       /\ pc' = IF lerr' = "" THEN "loop" ELSE "failed"
  /\ UNCHANGED <<tableVars, subVars, done, next, nr, err, perr, msgs, ppid, pid,
                 flags, out, chans, histVars>>

\* Faulty variant of ListenerClose: a failed send returns at once and the
\* socket stays open.
ListenerCloseUnlessSendFails(ok) ==
  /\ ListenerSend(PROC_CN_MCAST_IGNORE, ok, calls,
                  IF ok THEN <<Sys("Close", 0, TRUE)>> ELSE <<>>)
  /\ sock' = IF ok THEN "closed" ELSE sock

\* netlinkListener.close: send(IGNORE), then Close the socket whatever the
\* send returned, and return the send's error
ListenerClose(ok) ==
  /\ ListenerSend(PROC_CN_MCAST_IGNORE, ok, calls, <<Sys("Close", 0, TRUE)>>)
  /\ sock' = "closed"

\* Watcher.Close: give the stop signal and release the kernel channel
Close ==
  /\ Alive
  /\ sock = "open"
  /\ done' = TRUE
  /\ \E ok \in BOOLEAN : ListenerClose(ok)
  /\ UNCHANGED <<tableVars, subVars, dispVars, chans, histVars>>

(* ---------------------------- the read loop ---------------------------- *)
\* the event kinds handleEvent has a case for
Handled == {PROC_EVENT_FORK, PROC_EVENT_EXEC, PROC_EVENT_EXIT, PROC_EVENT_UID,
            PROC_EVENT_GID, PROC_EVENT_SID}

\* readEvents lines 179-183 with handleEvent's default: the messages left
\* once those that are not NLMSG_DONE, or whose kind has no case, are passed
RECURSIVE Skip(_)
Skip(ms) ==
  IF ms = <<>> THEN <<>>
  ELSE IF Head(ms).type # NLMSG_DONE \/ DecodeWhat(Head(ms)) \notin Handled
  THEN Skip(Tail(ms))
  ELSE ms

\* the messages left once those that are not NLMSG_DONE are passed
RECURSIVE SkipNotDone(_)
SkipNotDone(ms) ==
  IF ms = <<>> THEN <<>>
  ELSE IF Head(ms).type # NLMSG_DONE THEN SkipNotDone(Tail(ms))
  ELSE ms

\* the messages left once those whose kind has no case are passed
RECURSIVE SkipNoCase(_)
SkipNoCase(ms) ==
  IF ms = <<>> THEN <<>>
  ELSE IF DecodeWhat(Head(ms)) \notin Handled THEN SkipNoCase(Tail(ms))
  ELSE ms

\* Range with the next message taken from rest, where a kind without a case
\* of its own is handled by the exec case
RangeFrom(rest) ==
  LET m == Head(rest)
      what == DecodeWhat(m)
  IN /\ msgs' = rest
     /\ IF rest = <<>>
        THEN pc' = "loop" /\ next' = "" /\ ppid' = 0 /\ pid' = 0
        ELSE /\ pc' = "lock"
             /\ next' = CASE what = PROC_EVENT_FORK -> "fork_isw_exec"
                           [] what = PROC_EVENT_EXIT -> "exit_isw"
                           [] what \in {PROC_EVENT_UID, PROC_EVENT_GID} -> "id_isw"
                           [] what = PROC_EVENT_SID -> "sid_isw"
                           [] OTHER -> "exec_isw"
             /\ ppid' = IF what = PROC_EVENT_FORK THEN DecodeField(m, 2) ELSE 0
             /\ pid' = CASE what = PROC_EVENT_FORK -> DecodeField(m, 4)
                          [] what \in {PROC_EVENT_UID, PROC_EVENT_GID, PROC_EVENT_SID}
                               -> DecodeField(m, 1)
                          [] OTHER -> DecodeField(m, 2)

\* Faulty variant of Range: the switch ends in a default arm that handles
\* every other kind as an exec.
RangeDefaultExec(ms) == RangeFrom(SkipNotDone(ms))

\* Faulty variant of Range: the test m.Header.Type == NLMSG_DONE is missing.
RangeAnyType(ms) == RangeFrom(SkipNoCase(ms))

\* readEvents lines 179-183 and handleEvent lines 206-218, 236-238, 244-246,
\* 253-255, 261-263: range over the messages ms up to the first one that
\* has a case, decode it and call isWatching; with none left, the loop is
\* back at its top.  All of this is local to the read loop.
Range(ms) ==
  LET rest == Skip(ms)
      m == Head(rest)
      what == DecodeWhat(m)
  IN /\ msgs' = rest
     /\ IF rest = <<>>
        THEN pc' = "loop" /\ next' = "" /\ ppid' = 0 /\ pid' = 0
        ELSE /\ pc' = "lock"
             /\ next' = CASE what = PROC_EVENT_FORK -> "fork_isw_exec"
                           [] what = PROC_EVENT_EXEC -> "exec_isw"
                           [] what = PROC_EVENT_EXIT -> "exit_isw"
                           [] what \in {PROC_EVENT_UID, PROC_EVENT_GID} -> "id_isw"
                           [] what = PROC_EVENT_SID -> "sid_isw"
             /\ ppid' = IF what = PROC_EVENT_FORK THEN DecodeField(m, 2) ELSE 0
             /\ pid' = CASE what = PROC_EVENT_FORK -> DecodeField(m, 4)
                          [] what \in {PROC_EVENT_EXEC, PROC_EVENT_EXIT} -> DecodeField(m, 2)
                          [] OTHER -> DecodeField(m, 1)

\* handleEvent returns: on to the next message of the datagram
Return ==
  /\ Range(Tail(msgs))
  /\ flags' = {}
  /\ matched' = {}
  /\ via' = {}

\* isWatching / Watch / RemoveWatch called: wait for the mutex, go on at n
Call(n) ==
  /\ pc' = "lock"
  /\ next' = n

\* a channel send begins: the loop waits until the value is taken
Emit(c, ev) ==
  /\ out' = [chan |-> c, ev |-> ev]
  /\ pc' = "send"
  /\ next' = ""

\* readEvents line 162: if w.isDone() { return }; a new iteration starts
isDone ==
  /\ pc = "loop"
  /\ pc' = IF done THEN "exit" ELSE "recv"
  /\ nr' = 0
  /\ err' = FALSE
  /\ perr' = FALSE
  /\ dgram' = <<>>
  /\ UNCHANGED <<tableVars, subVars, chanVars, next, msgs, ppid, pid, flags,
                 out, chans, ndgrams, matched, via, exited>>

\* Faulty variant of Recvfrom: the nr < NLMSG_HDRLEN test is missing.
RecvfromUnchecked(d) ==
  /\ pc = "recv"
  /\ ndgrams < MaxDatagrams
  /\ ndgrams' = ndgrams + 1
  /\ nr' = d.nr
  /\ err' = d.err
  /\ IF d.err
     THEN /\ Emit("Error", [err |-> "errno", id |-> <<ndgrams + 1, 1>>])
          /\ UNCHANGED <<perr, msgs, ppid, pid, dgram>>
     ELSE LET r == ParseNetlinkMessage(d, <<ndgrams + 1, 1>>)
          IN /\ perr' = ~ r.ok
             /\ dgram' = r.msgs
             /\ Range(r.msgs)
             /\ UNCHANGED out
  /\ UNCHANGED <<tableVars, subVars, chanVars, flags, chans, matched, via, exited>>

\* readEvents lines 166-183: the blocking Recvfrom returns the datagram d;
\* an error or a short read is sent on w.Error, anything else is parsed
\* and ranged over
Recvfrom(d) ==
  /\ pc = "recv"
  /\ ndgrams < MaxDatagrams
  /\ ndgrams' = ndgrams + 1
  /\ nr' = d.nr
  /\ err' = d.err
  /\ IF d.err
     THEN /\ Emit("Error", [err |-> "errno", id |-> <<ndgrams + 1, 1>>])
          /\ UNCHANGED <<perr, msgs, ppid, pid, dgram>>
     ELSE IF d.nr < NLMSG_HDRLEN
     THEN /\ Emit("Error", [err |-> "EINVAL", id |-> <<ndgrams + 1, 1>>])
          /\ UNCHANGED <<perr, msgs, ppid, pid, dgram>>
     ELSE LET r == ParseNetlinkMessage(d, <<ndgrams + 1, 1>>)
          IN /\ perr' = ~ r.ok
             /\ dgram' = r.msgs
             /\ Range(r.msgs)
             /\ UNCHANGED out
  /\ UNCHANGED <<tableVars, subVars, chanVars, flags, chans, matched, via, exited>>

\* w.watchesMutex.Lock() by the read loop
Lock ==
  /\ pc = "lock"
  /\ mutex = "free"
  /\ mutex' = "disp"
  /\ pc' = next
  /\ next' = ""
  /\ UNCHANGED <<watches, subVars, chanVars, nr, err, perr, msgs, ppid, pid, flags,
                 out, chans, histVars>>

\* line 220: if w.isWatching(ppid, PROC_EVENT_EXEC)
ForkWatchingExec ==
  /\ pc = "fork_isw_exec"
  /\ mutex' = "free"
  /\ IF isWatching(watches, ppid, PROC_EVENT_EXEC)
     THEN /\ pc' = "fork_lookup"
          /\ next' = ""
          /\ matched' = IF ppid \in DOMAIN watches THEN watches[ppid]
                        ELSE watches[AnyPid]
          /\ via' = {IF ppid \in DOMAIN watches THEN ppid ELSE AnyPid}
     ELSE Call("fork_isw_fork") /\ UNCHANGED <<matched, via>>
  /\ UNCHANGED <<watches, subVars, chanVars, nr, err, perr, msgs, ppid, pid, flags,
                 out, chans, ndgrams, dgram, exited>>

\* line 222: watch, ok := w.watches[ppid], read without the mutex
ForkLookupParent ==
  /\ pc = "fork_lookup"
  /\ IF ppid \in DOMAIN watches
     THEN flags' = watches[ppid] /\ Call("fork_watch")
     ELSE pc' = "fork_lookup_any" /\ UNCHANGED <<flags, next>>
  /\ UNCHANGED <<tableVars, subVars, chanVars, nr, err, perr, msgs, ppid, pid, out,
                 chans, histVars>>

\* line 224: watch, ok := w.watches[-1], read without the mutex
ForkLookupAny ==
  /\ pc = "fork_lookup_any"
  /\ IF AnyPid \in DOMAIN watches
     THEN flags' = watches[AnyPid] /\ Call("fork_watch")
     ELSE Call("fork_isw_fork") /\ UNCHANGED flags
  /\ UNCHANGED <<tableVars, subVars, chanVars, nr, err, perr, msgs, ppid, pid, out,
                 chans, histVars>>

\* lines 222 and 224 while a subscriber is inside Watch or RemoveWatch: the
\* Go runtime may also end the process ("concurrent map read and map write")
ForkLookupRace ==
  /\ pc \in {"fork_lookup", "fork_lookup_any"}
  /\ mutex = "sub"
  /\ pc' = "fatal"
  /\ UNCHANGED <<tableVars, subVars, chanVars, next, nr, err, perr, msgs, ppid, pid,
                 flags, out, chans, histVars>>

\* lines 225 and 228: w.Watch(pid, watch.flags)
ForkWatch ==
  /\ pc = "fork_watch"
  /\ watches' = Watch(watches, pid, flags)
  /\ exited' = exited \ {pid}
  /\ mutex' = "free"
  /\ Call("fork_isw_fork")
  /\ UNCHANGED <<subVars, chanVars, nr, err, perr, msgs, ppid, pid, flags, out,
                 chans, ndgrams, dgram, matched, via>>

\* Faulty variant of ForkWatchingFork: the mutex is still held during the
\* send.
ForkWatchingForkLocked ==
  /\ pc = "fork_isw_fork"
  /\ IF isWatching(watches, ppid, PROC_EVENT_FORK)
     THEN /\ Emit("Fork", [ParentPid |-> ppid, ChildPid |-> pid,
                           id |-> Head(msgs).id])
          /\ UNCHANGED <<mutex, msgs, ppid, pid, flags, matched, via>>
     ELSE mutex' = "free" /\ Return /\ UNCHANGED out
  /\ UNCHANGED <<watches, subVars, chanVars, nr, err, perr, chans, ndgrams, dgram, exited>>

\* lines 232-233: if w.isWatching(ppid, PROC_EVENT_FORK) { w.Fork <- ... }
ForkWatchingFork ==
  /\ pc = "fork_isw_fork"
  /\ mutex' = "free"
  /\ IF isWatching(watches, ppid, PROC_EVENT_FORK)
     THEN /\ Emit("Fork", [ParentPid |-> ppid, ChildPid |-> pid,
                           id |-> Head(msgs).id])
          /\ UNCHANGED <<msgs, ppid, pid, flags, matched, via>>
     ELSE Return /\ UNCHANGED out
  /\ UNCHANGED <<watches, subVars, chanVars, nr, err, perr, chans, ndgrams, dgram, exited>>

\* Faulty variant of ExecWatching: the exec event is sent without the filter.
ExecWatchingUnfiltered ==
  /\ pc = "exec_isw"
  /\ mutex' = "free"
  /\ Emit("Exec", [Pid |-> pid, id |-> Head(msgs).id])
  /\ UNCHANGED <<watches, subVars, chanVars, nr, err, perr, msgs, ppid, pid, flags,
                 matched, via, chans, ndgrams, dgram, exited>>

\* lines 240-241: if w.isWatching(pid, PROC_EVENT_EXEC) { w.Exec <- ... }
ExecWatching ==
  /\ pc = "exec_isw"
  /\ mutex' = "free"
  /\ IF isWatching(watches, pid, PROC_EVENT_EXEC)
     THEN /\ Emit("Exec", [Pid |-> pid, id |-> Head(msgs).id])
          /\ UNCHANGED <<msgs, ppid, pid, flags, matched, via>>
     ELSE Return /\ UNCHANGED out
  /\ UNCHANGED <<watches, subVars, chanVars, nr, err, perr, chans, ndgrams, dgram, exited>>

\* The three removing cases share their shape: the isWatching test for the
\* interest bit `event`, going on to the RemoveWatch at `remove`
WatchingThenRemove(event, remove) ==
  /\ mutex' = "free"
  /\ IF isWatching(watches, pid, event)
     THEN /\ Call(remove)
          /\ via' = {IF pid \in DOMAIN watches THEN pid ELSE AnyPid}
          /\ UNCHANGED <<msgs, ppid, pid, flags, matched>>
     ELSE Return
  /\ UNCHANGED <<watches, subVars, chanVars, nr, err, perr, out, chans, ndgrams, dgram, exited>>

\* Faulty variant of RemoveThenEmit: the event is sent, the entry is kept.
RemoveThenEmitKeepingEntry(c) ==
  /\ mutex' = "free"
  /\ Emit(c, [Pid |-> pid, id |-> Head(msgs).id])
  /\ UNCHANGED <<watches, subVars, chanVars, nr, err, perr, msgs, ppid, pid, flags,
                 chans, ndgrams, dgram, matched, via>>

\* w.RemoveWatch(pid) followed by the send on channel c
RemoveThenEmit(c) ==
  /\ watches' = RemoveWatch(watches, pid)
  /\ mutex' = "free"
  /\ Emit(c, [Pid |-> pid, id |-> Head(msgs).id])
  /\ UNCHANGED <<subVars, chanVars, nr, err, perr, msgs, ppid, pid, flags, chans,
                 ndgrams, dgram, matched, via>>

\* line 248: if w.isWatching(pid, PROC_EVENT_EXIT)
ExitWatching ==
  /\ pc = "exit_isw"
  /\ WatchingThenRemove(PROC_EVENT_EXIT, "exit_remove")

\* lines 249-250: w.RemoveWatch(pid); w.Exit <- ...
ExitRemove ==
  /\ pc = "exit_remove"
  /\ RemoveThenEmit("Exit")
  /\ exited' = exited \cup {pid}

\* Faulty variant of IdWatching: a gid change is filtered by the Gid bit.
IdWatchingByKind ==
  /\ pc = "id_isw"
  /\ WatchingThenRemove(DecodeWhat(Head(msgs)), "id_remove")

\* line 256: if w.isWatching(pid, PROC_EVENT_UID), for uid and gid changes
IdWatching ==
  /\ pc = "id_isw"
  /\ WatchingThenRemove(PROC_EVENT_UID, "id_remove")

\* lines 257-258: w.RemoveWatch(pid); w.Uid <- ...
IdRemove ==
  /\ pc = "id_remove"
  /\ RemoveThenEmit("Uid")
  /\ UNCHANGED exited

\* line 264: if w.isWatching(pid, PROC_EVENT_SID)
SidWatching ==
  /\ pc = "sid_isw"
  /\ WatchingThenRemove(PROC_EVENT_SID, "sid_remove")

\* lines 265-266: w.RemoveWatch(pid); w.Sid <- ...
SidRemove ==
  /\ pc = "sid_remove"
  /\ RemoveThenEmit("Sid")
  /\ UNCHANGED exited

\* Faulty variant of Send: after an error the loop goes straight back to
\* the receive.
SendThenReceive ==
  /\ pc = "send"
  /\ chans' = [chans EXCEPT ![out.chan] = Append(@, out.ev)]
  /\ out' = NoOut
  /\ IF out.chan = "Error"
     THEN pc' = "recv" /\ UNCHANGED <<next, msgs, ppid, pid, flags, matched, via>>
     ELSE Return
  /\ UNCHANGED <<tableVars, subVars, chanVars, nr, err, perr, ndgrams, dgram, exited>>

\* Faulty variant of Send: the entry of the pid is removed once more after
\* the event was taken.
SendThenRemove ==
  /\ pc = "send"
  /\ chans' = [chans EXCEPT ![out.chan] = Append(@, out.ev)]
  /\ out' = NoOut
  /\ watches' = IF out.chan \in {"Exit", "Uid", "Sid"}
                THEN RemoveWatch(watches, pid) ELSE watches
  /\ IF out.chan = "Error"
     THEN pc' = "loop" /\ UNCHANGED <<next, msgs, ppid, pid, flags, matched, via>>
     ELSE Return
  /\ UNCHANGED <<mutex, subVars, chanVars, nr, err, perr, ndgrams, dgram, exited>>

\* A channel send completes: a consumer takes the value.  After an error
\* the loop continues at its top; after an event handleEvent returns.
Send ==
  /\ pc = "send"
  /\ chans' = [chans EXCEPT ![out.chan] = Append(@, out.ev)]
  /\ out' = NoOut
  /\ IF out.chan = "Error"
     THEN pc' = "loop" /\ UNCHANGED <<next, msgs, ppid, pid, flags, matched, via>>
     ELSE Return
  /\ UNCHANGED <<tableVars, subVars, chanVars, nr, err, perr, ndgrams, dgram, exited>>

(* --------------------------- specifications ---------------------------- *)
\* the steps the read loop takes on its own
Dispatch ==
  \/ isDone
  \/ Lock
  \/ ForkWatchingExec
  \/ ForkLookupParent
  \/ ForkLookupAny
  \/ ForkWatch
  \/ ForkWatchingFork
  \/ ExecWatching
  \/ ExitWatching
  \/ ExitRemove
  \/ IdWatching
  \/ IdRemove
  \/ SidWatching
  \/ SidRemove

Subscriber ==
  \/ \E op \in SubOps : SubLock(op)
  \/ SubWatch
  \/ SubRemoveWatch
  \/ Close

Next ==
  \/ NewWatcher
  \/ Dispatch
  \/ \E d \in Datagrams : Recvfrom(d)
  \/ ForkLookupRace
  \/ Send
  \/ Subscriber

Spec == Init /\ [][Next]_vars

\* The scheduler runs every thread that can move and consumers keep reading
\* the channels; when the kernel delivers a datagram is up to the kernel.
FairSpec ==
  /\ Spec
  /\ WF_vars(Dispatch)
  /\ WF_vars(Send)
  /\ WF_vars(SubWatch \/ SubRemoveWatch)

\* As FairSpec, but with no consumer bound to read any channel: threads
\* that can move are run, nobody has to take a value that is being sent.
NoConsumerSpec ==
  /\ Spec
  /\ WF_vars(Dispatch)
  /\ WF_vars(SubWatch \/ SubRemoveWatch)

(* ------------------------------ properties ----------------------------- *)
Kinds == {PROC_EVENT_FORK, PROC_EVENT_EXEC, PROC_EVENT_EXIT, PROC_EVENT_UID,
          PROC_EVENT_GID, PROC_EVENT_SID}
\* the pids the read loop can look up: 0 comes from a zeroed event record
Pids == {0, 1, 2}

\* t with the wildcard entry set to mask m
WithWildcard(t, m) ==
  [q \in DOMAIN t \cup {AnyPid} |-> IF q = AnyPid THEN m ELSE t[q]]

\* the read loop has moved
DispStep == <<pc, msgs, out>>' # <<pc, msgs, out>>

\* the read loop is inside handleEvent for the message Head(msgs)
InHandleEvent == msgs # <<>> /\ pc \in
  {"lock", "fork_isw_exec", "fork_lookup", "fork_lookup_any", "fork_watch",
   "fork_isw_fork", "exec_isw", "exit_isw", "exit_remove", "id_isw",
   "id_remove", "sid_isw", "sid_remove", "send"}

\* C1: isWatching(pid, kind) is true exactly when pid's explicit entry holds
\* kind, or pid has no explicit entry and the wildcard entry holds kind; with
\* an explicit entry the result is the same whatever the wildcard entry is,
\* present or absent.
C1_IsWatchingContract ==
  /\ LET explicit == DOMAIN watches
         wild == AnyPid \in explicit
     IN \A p \in Pids :
          LET own == p \in explicit
          IN \A k \in Kinds :
               isWatching(watches, p, k) =
                 \/ own /\ k \subseteq watches[p]
                 \/ ~ own /\ wild /\ k \subseteq watches[AnyPid]
  /\ \A t \in {RemoveWatch(watches, AnyPid), WithWildcard(watches, {}),
                WithWildcard(watches, UNION Kinds)} :
       \A p \in DOMAIN watches \ {AnyPid}, k \in Kinds :
         isWatching(t, p, k) = (k \subseteq watches[p])

\* C1 witness: the exit test runs for pid 1, whose own entry lacks the exit
\* bit while the wildcard entry has it.
C1_Witness ==
  /\ pc = "exit_isw"
  /\ pid \in DOMAIN watches
  /\ ~ (PROC_EVENT_EXIT \subseteq watches[pid])
  /\ AnyPid \in DOMAIN watches
  /\ PROC_EVENT_EXIT \subseteq watches[AnyPid]

\* C2: when the fork-follow stage of a Fork message whose parent matched for
\* Exec at line 220 is over, the child has a watch entry holding every bit
\* of the entry that matched.
C2_ForkFollow ==
  [][ ( /\ pc \in {"fork_lookup", "fork_lookup_any", "fork_watch"}
        /\ pc' = "lock"
        /\ next' = "fork_isw_fork" )
      => (pid \in DOMAIN watches' /\ matched \subseteq watches'[pid]) ]_vars

\* C3, as amended: a pid removed by Exit handling has no explicit entry
\* until it is watched again, so isWatching(pid, kind) is the wildcard
\* entry's mask test: false for every kind when there is no wildcard entry.
C3_ExitRemovesEntry ==
  \A p \in exited :
    /\ p \notin DOMAIN watches
    /\ \A k \in Kinds :
         isWatching(watches, p, k) =
           (AnyPid \in DOMAIN watches /\ k \subseteq watches[AnyPid])

\* C3 witness: the Exit event for pid 1 is delivered, pid 1 was not watched
\* again and the wildcard entry still matches it for Exit.
C3_Witness ==
  /\ 1 \in exited
  /\ chans.Exit # <<>>
  /\ AnyPid \in DOMAIN watches
  /\ isWatching(watches, 1, PROC_EVENT_EXIT)

\* C3 as first stated: after Exit handling for a pid, isWatching(pid, kind)
\* is false for every kind until the pid is watched again.
C3_ExitUnwatched ==
  \A p \in exited : \A k \in Kinds : ~ isWatching(watches, p, k)

\* a whole exec message in a NLMSG_DONE envelope
ExecMsg(m) ==
  m.type = NLMSG_DONE /\ Decodable(m) /\ m.what = PROC_EVENT_EXEC

\* C4: while the read loop handles an Exec message for pid p it never
\* changes the watch table; at the filter it goes on to send exactly the
\* event {p} on the Exec channel if isWatching(p, Exec) holds and otherwise
\* drops the message with nothing sent; the send adds that one event to the
\* Exec channel and to no other, and ends the handling of the message.
C4_ExecFiltered ==
  [][ (DispStep /\ InHandleEvent /\ ExecMsg(Head(msgs))) =>
        LET m == Head(msgs)
            p == m.payload[2]
            ev == [Pid |-> p, id |-> m.id]
        IN /\ watches' = watches
           /\ pc = "exec_isw" =>
                IF isWatching(watches, p, PROC_EVENT_EXEC)
                THEN /\ pc' = "send"
                     /\ out' = [chan |-> "Exec", ev |-> ev]
                     /\ msgs' = msgs
                     /\ chans' = chans
                ELSE /\ pc' \in {"lock", "loop"}
                     /\ out' = NoOut
                     /\ msgs' = Skip(Tail(msgs))
                     /\ chans' = chans
           /\ pc = "send" =>
                /\ out = [chan |-> "Exec", ev |-> ev]
                /\ chans' = [chans EXCEPT !.Exec = Append(@, ev)]
                /\ msgs' = Skip(Tail(msgs))
           /\ pc \notin {"exec_isw", "send"} => (chans' = chans /\ msgs' = msgs)
    ]_vars

\* C4 witness: an Exec event for pid 2 was delivered and the read loop is
\* back at the top of its loop.
C4_Witness ==
  /\ pc = "loop"
  /\ \E i \in 1..Len(chans.Exec) : chans.Exec[i].Pid = 2

\* C5: the read loop is never at a table access it makes without the mutex
\* while a subscriber thread is inside Watch or RemoveWatch.
C5_MutualExclusion ==
  ~ (pc \in {"fork_lookup", "fork_lookup_any"} /\ mutex = "sub")

\* arrival order: an earlier datagram, or earlier in the same datagram
Earlier(a, b) == a[1] < b[1] \/ (a[1] = b[1] /\ a[2] < b[2])

\* C6: on every channel each delivered value stems from a message (or a
\* failed receive) that arrived strictly later than the one before it: none
\* is reordered and none is delivered twice.
C6_ArrivalOrder ==
  \A c \in Chans : \A j \in 2..Len(chans[c]) :
    Earlier(chans[c][j - 1].id, chans[c][j].id)

\* C6 witness: the Exec channel delivered the events of two messages that
\* came in one datagram.
C6_Witness ==
  /\ ndgrams = 1
  /\ Len(chans.Exec) = 2

\* C7: once the stop signal is given the read loop ends (or the process
\* has died), even when no datagram arrives any more.
C7_StopTerminates == done ~> (pc \in {"exit", "fatal"})

\* C8: a Recvfrom that fails or returns less than a header goes on to send
\* one error and nothing else, with the watch table, the channels and the
\* message list as they were; the error send adds that one entry to the
\* Error channel, touches no other channel and no watch entry, and the loop
\* continues at its top.
C8_BadReceiveIsolated ==
  [][ /\ (pc = "recv" /\ pc' # "recv" /\ (err' \/ nr' < NLMSG_HDRLEN)) =>
           /\ pc' = "send"
           /\ out'.chan = "Error"
           /\ out'.ev.id = <<ndgrams + 1, 1>>
           /\ watches' = watches
           /\ chans' = chans
           /\ msgs' = <<>>
      /\ (pc = "send" /\ out.chan = "Error" /\ pc' # "send") =>
           /\ chans' = [chans EXCEPT !.Error = Append(@, out.ev)]
           /\ watches' = watches
           /\ msgs' = <<>>
           /\ pc' = "loop"
    ]_vars

\* C8 witness: an error was reported for a short datagram and an event of
\* a later datagram was delivered after it.
C8_Witness ==
  \E i \in 1..Len(chans.Error) :
    /\ chans.Error[i].err = "EINVAL"
    /\ \E c \in Chans \ {"Error"} : \E j \in 1..Len(chans[c]) :
         Earlier(chans.Error[i].id, chans[c][j].id)

\* C9: a NLMSG_DONE message that handleEvent cannot decode in full changes
\* no watch entry, has no event sent for it and is not dropped before an
\* error for it is on the Error channel; a datagram whose envelope does not
\* parse is reported on the Error channel.
C9_DecodeErrorsReported ==
  [][ /\ ( /\ DispStep
           /\ pc \notin {"loop", "recv"}
           /\ msgs # <<>>
           /\ Head(msgs).type = NLMSG_DONE
           /\ ~ Decodable(Head(msgs)) ) =>
           /\ watches' = watches
           /\ out'.chan \in {"none", "Error"}
           /\ msgs' # msgs =>
                \E i \in 1..Len(chans'.Error) : chans'.Error[i].id = Head(msgs).id
      /\ (pc = "recv" /\ pc' # "recv" /\ perr') =>
           (pc' = "send" /\ out'.chan = "Error")
    ]_vars

\* C10: inside handleEvent the pid used for the lookup, the removal and the
\* emitted event is the thread-group id field of the payload (for a fork,
\* the parent's and the child's thread-group id).
C10_TgidUsed ==
  (InHandleEvent /\ Decodable(Head(msgs))) =>
    LET m == Head(msgs)
    IN IF m.what = PROC_EVENT_FORK
       THEN ppid = m.payload[2] /\ pid = m.payload[4]
       ELSE /\ pid = m.payload[2]
            /\ pc = "send" => out.ev.Pid = m.payload[2]

\* a message in the single-part envelope whose kind handleEvent has no case
\* for (0, Ptrace, Comm, Coredump, ...)
UnknownKind(m) == m.type = NLMSG_DONE /\ m.what \notin Kinds

\* nothing was sent for message m, nothing is about to be, and the read loop
\* is not inside handleEvent for it (where the table operations are)
Ignored(m) ==
  /\ \A c \in Chans : \A j \in 1..Len(chans[c]) : chans[c][j].id # m.id
  /\ out # NoOut => out.ev.id # m.id
  /\ InHandleEvent => Head(msgs).id # m.id

\* C11: for a message of the current datagram whose kind is outside the
\* handled enumeration no event and no error is sent, and handleEvent makes
\* no table operation for it.
C11_UnknownKindIgnored ==
  \A i \in 1..Len(dgram) : UnknownKind(dgram[i]) => Ignored(dgram[i])

\* C11 witness: a Ptrace message was received while the wildcard entry
\* watches for kinds, and the read loop is back at the top of its loop.
C11_Witness ==
  /\ pc = "loop"
  /\ dgram # <<>>
  /\ dgram[1].what = PROC_EVENT_PTRACE
  /\ AnyPid \in DOMAIN watches
  /\ PROC_EVENT_EXEC \subseteq watches[AnyPid]

\* a whole uid, gid or sid message in a NLMSG_DONE envelope
IdOrSidMsg(m) ==
  /\ m.type = NLMSG_DONE
  /\ Decodable(m)
  /\ m.what \in {PROC_EVENT_UID, PROC_EVENT_GID, PROC_EVENT_SID}

Opened ==
  <<Sys("Socket", 0, TRUE), Sys("Bind", 0, TRUE),
    Sys("Sendto", PROC_CN_MCAST_LISTEN, TRUE)>>

\* C13: once Open has succeeded the listener has made the calls Socket,
\* Bind, Sendto(LISTEN) and no other as long as the socket is open, whatever
\* was subscribed, unsubscribed or received in between (no receive happens
\* before them); once closed it has made, after those, exactly one
\* Sendto(IGNORE) and then the Close of the socket, also when that Sendto
\* failed, in which case close returned the send's error.
C13_Handshake ==
  /\ (pc \in {"new", "failed"}) => (ndgrams = 0 /\ sock # "closed")
  /\ (pc \notin {"new", "failed"}) => (sock \in {"open", "closed"})
  /\ (pc \notin {"new", "failed"} /\ sock = "open") =>
       (calls = Opened /\ sent = <<PROC_CN_MCAST_LISTEN>>)
  /\ sock = "closed" =>
       \E ok \in BOOLEAN :
         /\ calls = Opened \o <<Sys("Sendto", PROC_CN_MCAST_IGNORE, ok),
                                 Sys("Close", 0, TRUE)>>
         /\ lerr = IF ok THEN "" ELSE "Sendto"
         /\ sent = IF ok THEN <<PROC_CN_MCAST_LISTEN, PROC_CN_MCAST_IGNORE>>
                         ELSE <<PROC_CN_MCAST_LISTEN>>

\* C13 witness: the socket is released after a failed IGNORE send, with
\* subscriptions made and a datagram received while it was open.
C13_Witness ==
  /\ sock = "closed"
  /\ lerr = "Sendto"
  /\ nops > 0
  /\ ndgrams > 0

\* C14: Open calls Socket, Bind and Sendto(LISTEN) in that order and stops
\* at the first that fails: a failed construction has made the calls up to
\* the failing one and no other, once each, got no message sent, received
\* nothing and returned that call's error; a construction that did not fail
\* has had all three calls succeed.
C14_FailFast ==
  /\ pc = "failed" =>
       /\ lerr \in {"Socket", "Bind", "Sendto"}
       /\ lerr = "Socket" => calls = <<Sys("Socket", 0, FALSE)>>
       /\ lerr = "Bind" =>
            calls = <<Sys("Socket", 0, TRUE), Sys("Bind", 0, FALSE)>>
       /\ lerr = "Sendto" =>
            calls = <<Sys("Socket", 0, TRUE), Sys("Bind", 0, TRUE),
                      Sys("Sendto", PROC_CN_MCAST_LISTEN, FALSE)>>
       /\ sent = <<>>
       /\ ndgrams = 0
  /\ pc \notin {"new", "failed"} =>
       (Len(calls) >= 3 /\ \A i \in 1..3 : calls[i].ok)

\* C14 witness: construction failed at Bind and no LISTEN was sent.
C14_Witness ==
  /\ pc = "failed"
  /\ lerr = "Bind"
  /\ \A i \in 1..Len(calls) : calls[i].name # "Sendto"

\* C15: the read loop enters a receive only from the top of the loop and
\* only when the stop flag is not set there; with the flag set at the top
\* it leaves the loop; and once the flag is set no further receive is
\* entered, so that a datagram is received after that only by the receive
\* that was already entered.
C15_FlagCheckedBeforeReceive ==
  [][ /\ (pc' = "recv" /\ pc # "recv") => (pc = "loop" /\ ~ done)
      /\ (pc = "loop" /\ done) => pc' \in {"loop", "exit"}
      /\ (done /\ pc # "recv") => pc' # "recv"
      /\ ndgrams' # ndgrams => (pc = "recv" /\ ndgrams' = ndgrams + 1)
      /\ done => done'
    ]_vars

\* C15 witness: the read loop has ended on the stop flag after it received
\* a datagram, with more datagrams still to come.
C15_Witness ==
  /\ pc = "exit"
  /\ done
  /\ ndgrams > 0
  /\ ndgrams < MaxDatagrams

\* C16: once a datagram is received the read loop gets through it and back
\* to the top of its loop (or the process has died) without a consumer
\* having to read any channel.
C16_OnlyReceiveSuspends ==
  (pc \notin {"new", "failed", "recv", "loop", "exit", "fatal"})
    ~> (pc \in {"loop", "exit", "fatal"})

\* the positions at which the read loop is inside isWatching, Watch or
\* RemoveWatch
TableOps ==
  {"fork_isw_exec", "fork_watch", "fork_isw_fork", "exec_isw", "exit_isw",
   "exit_remove", "id_isw", "id_remove", "sid_isw", "sid_remove"}

\* C17: the read loop holds the watch-table lock only inside a table
\* operation, never while it receives, decodes or sends on a channel; so
\* while it waits on a channel the lock is free unless a subscriber thread
\* has it.
C17_LockOnlyForTableOps ==
  /\ mutex = "disp" => pc \in TableOps
  /\ pc \in {"send", "recv", "loop", "lock", "exit"} => mutex \in {"free", "sub"}

\* C17 witness: a subscriber thread has taken the lock while the read loop
\* waits on the Exit channel.
C17_Witness ==
  /\ pc = "send"
  /\ out.chan = "Exit"
  /\ mutex = "sub"

\* a message handleEvent is called for and has a case for
Dispatchable(m) == m.type = NLMSG_DONE /\ m.what \in Kinds

\* position in the current datagram of the message the read loop is done
\* with when it takes this step (0 when the datagram has just come in)
DoneWith == IF pc = "recv" THEN 0 ELSE Head(msgs).id[2]

\* nothing was sent and no table operation made for the messages of the
\* current datagram whose envelope type is not NLMSG_DONE
NotDoneUntouched ==
  \A i \in 1..Len(dgram) : (dgram[i].type # NLMSG_DONE) => Ignored(dgram[i])

\* C18: after every step a message of the current datagram whose envelope
\* type is not NLMSG_DONE has had no event and no error sent for it and no
\* table operation made for it; and whenever the read loop goes on from one
\* message of a datagram (or from its receive), it enters handleEvent for
\* the first NLMSG_DONE message of a handled kind that comes after it in
\* the datagram, whatever lies between them, and is back at the top of the
\* loop only when there is none.
C18_NotDoneIgnored ==
  [][ /\ NotDoneUntouched'
      /\ ((pc = "recv" /\ dgram' # <<>>) \/ (pc # "recv" /\ msgs' # msgs)) =>
           LET cand == {i \in (DoneWith + 1)..Len(dgram') : Dispatchable(dgram'[i])}
           IN IF cand = {}
              THEN msgs' = <<>> /\ pc' = "loop"
              ELSE LET i == CHOOSE i \in cand : \A j \in cand : i <= j
                   IN /\ msgs' # <<>>
                      /\ Head(msgs') = dgram'[i]
                      /\ pc' = "lock"
                      /\ out' = NoOut
    ]_vars

\* C18 witness: the event of the second message of a datagram is being
\* sent, the first message of that datagram not being NLMSG_DONE.
C18_Witness ==
  /\ pc = "send"
  /\ Len(dgram) >= 2
  /\ dgram[1].type # NLMSG_DONE
  /\ out.ev.id = dgram[2].id

\* the read loop is at the RemoveWatch of an Exit, Uid/Gid or Sid case
AtRemove == pc \in {"exit_remove", "id_remove", "sid_remove"}

\* C19: no step of the read loop creates, changes or removes the wildcard
\* entry, and the RemoveWatch of an Exit, Uid/Gid or Sid case for a pid
\* that isWatching matched through the wildcard entry only leaves the
\* whole watch table as it is.
C19_WildcardUntouched ==
  [][ DispStep =>
        /\ (AnyPid \in DOMAIN watches') = (AnyPid \in DOMAIN watches)
        /\ (AnyPid \in DOMAIN watches) => (watches'[AnyPid] = watches[AnyPid])
        /\ (AtRemove /\ via = {AnyPid}) => (watches' = watches)
    ]_vars

\* the channels of the three removing cases
RemovingChans == {"Exit", "Uid", "Sid"}

\* C20, as amended: the step that starts the send of an Exit, Uid or Sid
\* event leaves the pid without an entry of its own, and the step that
\* completes that send ends the processing of the message without changing
\* the watch table, so an entry a subscriber makes for the pid once the
\* event can be seen is not undone by the processing of that message.
C20_RemovedBeforeEmit ==
  [][ /\ (out = NoOut /\ out'.chan \in RemovingChans) =>
           /\ AtRemove
           /\ out'.ev.Pid = pid
           /\ pid \notin DOMAIN watches'
      /\ (DispStep /\ pc = "send" /\ out.chan \in RemovingChans) =>
           /\ watches' = watches
           /\ msgs' = <<>> \/ Head(msgs').id # Head(msgs).id
    ]_vars

\* C20 witness: the Exit event for pid 1 was taken from the Exit channel
\* and pid 1, watched again since, still has its new entry when the read
\* loop is done with the datagram.
C20_Witness ==
  /\ chans.Exit # <<>>
  /\ chans.Exit[1].Pid = 1
  /\ 1 \in DOMAIN watches
  /\ ndgrams = 1
  /\ pc = "loop"

\* C20 as first stated: when the send of an Exit, Uid or Sid event starts,
\* the entry that matched the pid, its own or the wildcard entry, is no
\* longer in the table.
C20_MatchedEntryRemoved ==
  [][ (out = NoOut /\ out'.chan \in RemovingChans) =>
        \A q \in via : q \notin DOMAIN watches' ]_vars

====
